---- MODULE Spec2Model ----
(***************************************************************************)
(* Model of SFCodeParser (src/parse_sf_code.py): the walk of parse() over  *)
(* the selected elements, the chunk accumulator and chunk emission.        *)
(*                                                                         *)
(* Text is a sequence of characters.  A character is an integer: p >= 1 is *)
(* a visible character of the element visited p-th, NL is the newline the  *)
(* parser inserts, Deco is a character of the literal "[Footnote ...]"     *)
(* decoration.  Python lists that the code mutates in place live in heap   *)
(* and are held by reference, as in Python; a chunk built by               *)
(* {**metadata, ...} copies the references, not the lists.                 *)
(*                                                                         *)
(* Spec walks over element lists drawn from a catalog of elements;         *)
(* FairSpec is Spec with the loop running to its end; SpecSave calls       *)
(* _save_chunk directly; SpecTree starts from a document tree and runs     *)
(* has_target_class and extract_text_from_element on it; SpecFun calls    *)
(* the helper functions (reference strings, history, analyze_chunks.py)   *)
(* on their own; SpecTwice runs parse() twice on one element sequence;    *)
(* SpecFile starts parse() at the open() of its input file; SpecClass     *)
(* runs the walk and classify_element on one tag given by its classes.    *)
(***************************************************************************)
EXTENDS Integers, Sequences, FiniteSets, TLC

\* ---------------------------------------------------------------- bounds
\* Number of elements returned by soup.find_all(has_target_class).
MaxElems == 3
\* Longest text_content of one element, in characters.
MaxTextLen == 2
\* The configured max_chunk_size (2000 by default, scaled down here).
max_chunk_size == 2
\* Deepest nesting of tags in a parsed document.
MaxDepth == 3
\* Most references in the source chunk given to get_referenced_chunks_from_chunk.
MaxRefs == 2
\* Longest identifier behind '#JD_' in a link's hash, in tokens.
MaxRefLen == 3
\* Longest text of a History div, in tokens.
MaxHistLen == 5

VARIABLES
    pc,            \* "loop" while parse() iterates, "done" after it returned
    n,             \* number of elements processed so far (i of the for loop)
    current_text,  \* the text buffer of parse()
    current_metadata, \* the live metadata dict of parse()
    heap,          \* the Python list objects, by reference
    chunks,        \* self.chunks
    chunk_number,  \* self.chunk_number
    unhandled_text,\* the audit list of the fallback branch
    sec,           \* history: number of structural boundaries processed
    emitted,       \* history: for chunk k, the section and cause of its emission
    handed,        \* history: the texts handed to the accumulator, in order
    source,        \* history: the visible text of the elements, in order
    last,          \* history: what the last step did
    inputs,        \* history: for each element visited, its branch and what it carries
    doc,           \* the parsed document, where the model starts from one
    arg,           \* the argument of a helper function called on its own
    ret            \* what that call returned

vars == <<pc, n, current_text, current_metadata, heap, chunks, chunk_number,
          unhandled_text, sec, emitted, handed, source, last, inputs, doc, arg, ret>>

\* ------------------------------------------------------------ characters
NL == 0
Deco == 0 - 1

\* text_content of the element visited p-th: len visible characters
TextOf(p, len) == [k \in 1..len |-> p]

\* ---------------------------------------------------------- field values
\* A metadata value is None or a string.  A string is named by the node it
\* was taken from, the part of the node (n = 0: the empty string) and
\* whether it still has capitals, blanks or colons (raw).
None == [k |-> "none", n |-> 0, part |-> "", raw |-> FALSE]
Str(p, part, raw) == [k |-> "str", n |-> p, part |-> part, raw |-> raw]
EmptyStr == [k |-> "str", n |-> 0, part |-> "", raw |-> FALSE]
\* Python truthiness of a value: None and '' are falsy
Truthy(v) == v.k = "str" /\ v.n # 0

\* .lower().replace(' ', '_').replace(':', '')
Slug(v) == [v EXCEPT !.raw = FALSE]

\* -------------------------------------------------------- hierarchy_tags
Levels == 1..5
LevelType(i) ==
    CASE i = 1 -> "chapter" [] i = 2 -> "article" [] i = 3 -> "division"
      [] i = 4 -> "section" [] i = 5 -> "subsection"
LevelFields(i) ==
    CASE i = 1 -> <<"chapter">>
      [] i = 2 -> <<"article", "article_number", "article_title">>
      [] i = 3 -> <<"division">>
      [] i = 4 -> <<"section_title", "section_number">>
      [] i = 5 -> <<"subsection">>
AnchorField(i) ==
    CASE i = 1 -> "chapter_anchor" [] i = 2 -> "article_anchor"
      [] i = 3 -> "division_anchor" [] i = 4 -> "section_anchor"
      [] i = 5 -> "subsection_anchor"
FieldSet(i) == {LevelFields(i)[k] : k \in 1..Len(LevelFields(i))}

\* ---------------------------------------------------------------- inputs
\* An element selected by has_target_class, by what the code reads of it:
\*   name        tag name ("div" or "table")
\*   levels      hierarchy levels whose keyword occurs in one of its classes
\*   normal      'Normal-Level' occurs in its class string
\*   rbox        'rbox' occurs in its class string
\*   footnote    'footnote' occurs in its class string
\*   len         length of extract_text_from_element(element)
\*   id          it has a non-empty id attribute
\*   content_div _extract_structural_data finds a content div
\*   elem_text   the content div has text outside anchors
\*   anchor      the content div has an <a name="JD_...">
\*   match       the level's regular expression matches the content text
\*   inner       class string of the inner content div ("" if none)
\*   ilinks      its <link to=...> descriptors, each "hash" (has a hash
\*               component), "nohash" or "newhash" (has one, and contains 'new')
\*   elinks      number of <a class="Web">, <intercodelink> and <img> each
\*   hist        number of History divs with an "Added by / Amended by" clause
\*   cells       (table) it has a marker cell and a foot-text cell
\*   neword      'NewOrd' occurs in its class string
Elem(name, levels, normal, len, id, cdiv, etext, anchor, match, ilinks, elinks, hist, cells) ==
    [name |-> name, levels |-> levels, normal |-> normal,
     rbox |-> (name = "div"), footnote |-> (name = "table"),
     len |-> len, id |-> id, content_div |-> cdiv, elem_text |-> etext,
     anchor |-> anchor, match |-> match,
     inner |-> (IF hist > 0 THEN "History" ELSE IF ilinks # <<>> THEN "Normal" ELSE ""),
     ilinks |-> ilinks, elinks |-> elinks, hist |-> hist, cells |-> cells,
     neword |-> FALSE]

\* Structural boundaries: a node without text or content div; a node with a
\* heading (anchored at the levels that have no extractor, bare at the two
\* that have one); a node with an anchored heading that the extractor of its
\* level (Article, Section) matches, and whose heading holds an internal
\* link with a hash and an external, an intercode and an image link.
StructElems ==
    {Elem("div", {i}, FALSE, 0, FALSE, FALSE, FALSE, FALSE, FALSE, <<>>, 0, 0, FALSE) : i \in Levels}
    \cup {Elem("div", {i}, FALSE, 1, FALSE, TRUE, TRUE, i \notin {2, 4}, FALSE, <<>>, 0, 0, FALSE) : i \in Levels}
    \cup {Elem("div", {i}, FALSE, 1, FALSE, TRUE, TRUE, TRUE, TRUE, <<"hash">>, 1, 0, FALSE) : i \in {2, 4}}

\* Normal-Level content: without text; with text of every length and no id;
\* with an id; with an id and an internal link that has a hash; with an
\* internal link without hash followed by one with a hash, and an external,
\* an intercode and an image link; with a History div.
ContentElems ==
    {Elem("div", {}, TRUE, 0, TRUE, FALSE, FALSE, FALSE, FALSE, <<>>, 0, 0, FALSE)}
    \cup {Elem("div", {}, TRUE, l, FALSE, FALSE, FALSE, FALSE, FALSE, <<>>, 0, 0, FALSE) : l \in 1..MaxTextLen}
    \cup {Elem("div", {}, TRUE, 1, TRUE, FALSE, FALSE, FALSE, FALSE, <<>>, 0, 0, FALSE),
          Elem("div", {}, TRUE, 1, TRUE, FALSE, FALSE, FALSE, FALSE, <<"hash">>, 0, 0, FALSE),
          Elem("div", {}, TRUE, 1, FALSE, FALSE, FALSE, FALSE, FALSE, <<"nohash", "hash">>, 1, 0, FALSE),
          Elem("div", {}, TRUE, 1, FALSE, FALSE, FALSE, FALSE, FALSE, <<>>, 0, 1, FALSE)}

\* Footnote tables, with and without the marker / foot-text cells.
FootnoteElems ==
    {Elem("table", {}, FALSE, 2, FALSE, FALSE, FALSE, FALSE, FALSE, <<>>, 0, 0, c) : c \in BOOLEAN}

\* Other rbox divs (fallback branch), one of them a New Ordinance Notice.
OtherElems ==
    {Elem("div", {}, FALSE, l, FALSE, FALSE, FALSE, FALSE, FALSE, <<>>, 0, 0, FALSE) : l \in 0..MaxTextLen}
    \cup {[Elem("div", {}, FALSE, 1, FALSE, FALSE, FALSE, FALSE, FALSE, <<"newhash">>, 1, 0, FALSE)
            EXCEPT !.neword = TRUE]}

Elements == StructElems \cup ContentElems \cup FootnoteElems \cup OtherElems

\* ------------------------------------------------------------------ heap
\* heap[r] is the Python list with reference r.  NewLists(h, k) allocates k
\* empty lists.
NewLists(h, k) == h \o [j \in 1..k |-> <<>>]
HeapAppend(h, r, x) == [h EXCEPT ![r] = Append(@, x)]
HeapExtend(h, r, xs) == [h EXCEPT ![r] = @ \o xs]

\* current_metadata as parse() builds it (lines 318-335); the lists are the
\* references 1..8.  The keys 'hash' and '<level>_anchor', which the code
\* adds later, are present from the start with value None.
InitMetadata ==
    [chapter |-> None, article |-> None, article_number |-> None,
     article_title |-> None, division |-> None, section_id |-> None,
     section_number |-> None, section_title |-> None, subsection |-> None,
     chunk_index |-> 1,
     div_classes |-> 7,
     all_links |-> [internal_links |-> 1, external_links |-> 2,
                    intercode_links |-> 3, image_links |-> 4],
     history_data |-> [added_by |-> <<>>, amended_by |-> <<>>, see_also |-> <<>>],
     references |-> 5,
     new_ordinance_links |-> 6,
     html_tags |-> 8,
     hash |-> None,
     chapter_anchor |-> None, article_anchor |-> None, division_anchor |-> None,
     section_anchor |-> None, subsection_anchor |-> None]

\* The interpreter state the helper methods work on; raised: a ValueError
\* is propagating.
State(md, h, chs, num, em) ==
    [md |-> md, heap |-> h, chunks |-> chs, chunk_number |-> num, emitted |-> em,
     raised |-> FALSE]

\* ------------------------------------------------------------ _save_chunk
DocId(md) ==
    (IF Truthy(md.chapter) THEN <<Slug(md.chapter)>> ELSE <<>>)
    \o (IF Truthy(md.article) THEN <<Slug(md.article)>> ELSE <<>>)
    \o (IF Truthy(md.section_id) THEN <<md.section_id>> ELSE <<>>)

Title(md) ==
    (IF Truthy(md.chapter) THEN <<md.chapter>> ELSE <<>>)
    \o (IF Truthy(md.article) THEN <<md.article>> ELSE <<>>)
    \o (IF Truthy(md.division) THEN <<md.division>> ELSE <<>>)

\* The run of the parser that is executing: the second one once the chunk
\* list of a first run has been kept in ret.
RunNo == IF ret = <<>> THEN 1 ELSE 2

\* generate_doc_uuid(doc_id) of helpers.helpers: a name-based uuid, a
\* function of the doc_id alone.
Uuid(doc_id) == [namespace |-> "doc", name |-> doc_id]

\* datetime.now(timezone.utc).isoformat(): the clock reading of this run at
\* the num-th save; the clock never gives one reading to two runs.
Now(num) == [run |-> RunNo, tick |-> num]

\* a chunk whose uuid is drawn from the clock instead of from the doc_id
MakeChunk_ClockUuid(text, md, num) ==
    [metadata |-> md,
     content |-> text,
     doc_id |-> DocId(md),
     uuid |-> [namespace |-> "time", name |-> <<Now(num)>>],
     processing_timestamp |-> Now(num),
     chunk_id |-> [doc_id |-> DocId(md), chunk_index |-> md.chunk_index],
     chunk_index |-> md.chunk_index,
     chunk_number |-> num,
     title |-> Title(md),
     character_count |-> Len(text)]

\* {**metadata, ..., 'content': text, ...}: the chunk copies the values of
\* the metadata dict, that is, the references of its lists.
MakeChunk(text, md, num) ==
    [metadata |-> md,
     content |-> text,
     doc_id |-> DocId(md),
     uuid |-> Uuid(DocId(md)),
     processing_timestamp |-> Now(num),
     chunk_id |-> [doc_id |-> DocId(md), chunk_index |-> md.chunk_index],
     chunk_index |-> md.chunk_index,
     chunk_number |-> num,
     title |-> Title(md),
     character_count |-> Len(text)]

\* _save_chunk without self.chunk_number += 1
SaveChunk_NoCount(s, text, cause, secno) ==
    [s EXCEPT !.chunks = Append(@, MakeChunk(text, s.md, s.chunk_number)),
              !.emitted = Append(@, [sec |-> secno, cause |-> cause])]

\* _save_chunk reading a missing chunk_index as 1
SaveChunk_DefaultIndex(s, text, cause, secno) ==
    [s EXCEPT !.chunks = Append(@, MakeChunk(text, s.md @@ [chunk_index |-> 1],
                                             s.chunk_number)),
              !.chunk_number = @ + 1,
              !.emitted = Append(@, [sec |-> secno, cause |-> cause])]

\* cause and secno are history only.  Lines 794-796: without the key
\* 'chunk_index' the method raises before it builds the chunk.
SaveChunk(s, text, cause, secno) ==
    IF "chunk_index" \notin DOMAIN s.md
    THEN [s EXCEPT !.raised = TRUE]
    ELSE [s EXCEPT !.chunks = Append(@, MakeChunk(text, s.md, s.chunk_number)),
                   !.chunk_number = @ + 1,
                   !.emitted = Append(@, [sec |-> secno, cause |-> cause])]

\* ------------------------------------------------ add_text_to_current_chunk
should_create_new_chunk(cur, new) == Len(cur \o new) > max_chunk_size

TagInfo(el, p, new) == [tag |-> el.name, node |-> p, text_length |-> Len(new)]

\* add_text_to_current_chunk without current_metadata['chunk_index'] += 1
AddText_NoIncrement(s, cur, new, el, p, secno) ==
    IF new = <<>> THEN [text |-> cur, s |-> s]
    ELSE
      LET tag_info == TagInfo(el, p, new)
          s1 == [s EXCEPT !.heap = HeapAppend(@, s.md.html_tags, tag_info)]
          combined == IF cur # <<>> THEN cur \o <<NL>> \o new ELSE new
      IN IF should_create_new_chunk(cur, new)
         THEN IF cur # <<>>
              THEN LET s2 == SaveChunk(s1, cur, "split", secno)
                       r  == Len(s2.heap) + 1
                   IN [text |-> new,
                       s |-> [s2 EXCEPT !.md.html_tags = r,
                                        !.heap = HeapAppend(NewLists(@, 1), r, tag_info)]]
              ELSE [text |-> new, s |-> s1]
         ELSE [text |-> combined, s |-> s1]

\* add_text_to_current_chunk joining without the separator
AddText_NoSeparator(s, cur, new, el, p, secno) ==
    IF new = <<>> THEN [text |-> cur, s |-> s]
    ELSE
      LET tag_info == TagInfo(el, p, new)
          s1 == [s EXCEPT !.heap = HeapAppend(@, s.md.html_tags, tag_info)]
          combined == cur \o new
      IN IF should_create_new_chunk(cur, new)
         THEN IF cur # <<>>
              THEN LET s2 == SaveChunk(s1, cur, "split", secno)
                       r  == Len(s2.heap) + 1
                   IN [text |-> new,
                       s |-> [s2 EXCEPT !.md.chunk_index = @ + 1,
                                        !.md.html_tags = r,
                                        !.heap = HeapAppend(NewLists(@, 1), r, tag_info)]]
              ELSE [text |-> new, s |-> s1]
         ELSE [text |-> combined, s |-> s1]

\* add_text_to_current_chunk starting new link lists at a split
AddText_ClearLinks(s, cur, new, el, p, secno) ==
    IF new = <<>> THEN [text |-> cur, s |-> s]
    ELSE
      LET tag_info == TagInfo(el, p, new)
          s1 == [s EXCEPT !.heap = HeapAppend(@, s.md.html_tags, tag_info)]
          combined == IF cur # <<>> THEN cur \o <<NL>> \o new ELSE new
      IN IF should_create_new_chunk(cur, new)
         THEN IF cur # <<>>
              THEN LET s2 == SaveChunk(s1, cur, "split", secno)
                       r  == Len(s2.heap) + 1
                   IN [text |-> new,
                       s |-> [s2 EXCEPT !.md.chunk_index = @ + 1,
                                        !.md.html_tags = r,
                                        !.md.all_links = [internal_links |-> r + 1,
                                                          external_links |-> r + 2,
                                                          intercode_links |-> r + 3,
                                                          image_links |-> r + 4],
                                        !.md.references = r + 5,
                                        !.heap = HeapAppend(NewLists(@, 6), r, tag_info)]]
              ELSE [text |-> new, s |-> s1]
         ELSE [text |-> combined, s |-> s1]

\* add_text_to_current_chunk putting the new text in front of the buffer
AddText_Prepend(s, cur, new, el, p, secno) ==
    IF new = <<>> THEN [text |-> cur, s |-> s]
    ELSE
      LET tag_info == TagInfo(el, p, new)
          s1 == [s EXCEPT !.heap = HeapAppend(@, s.md.html_tags, tag_info)]
          combined == IF cur # <<>> THEN new \o <<NL>> \o cur ELSE new
      IN IF should_create_new_chunk(cur, new)
         THEN IF cur # <<>>
              THEN LET s2 == SaveChunk(s1, cur, "split", secno)
                       r  == Len(s2.heap) + 1
                   IN [text |-> new,
                       s |-> [s2 EXCEPT !.md.chunk_index = @ + 1,
                                        !.md.html_tags = r,
                                        !.heap = HeapAppend(NewLists(@, 1), r, tag_info)]]
              ELSE [text |-> new, s |-> s1]
         ELSE [text |-> combined, s |-> s1]

\* returns the new buffer (text) and the new interpreter state (s)
AddText(s, cur, new, el, p, secno) ==
    IF new = <<>> THEN [text |-> cur, s |-> s]
    ELSE
      LET tag_info == TagInfo(el, p, new)
          s1 == [s EXCEPT !.heap = HeapAppend(@, s.md.html_tags, tag_info)]
          combined == IF cur # <<>> THEN cur \o <<NL>> \o new ELSE new
      IN IF should_create_new_chunk(cur, new)
         THEN IF cur # <<>>
              THEN LET s2 == SaveChunk(s1, cur, "split", secno)
                       r  == Len(s2.heap) + 1
                   IN [text |-> new,
                       s |-> [s2 EXCEPT !.md.chunk_index = @ + 1,
                                        !.md.html_tags = r,
                                        !.heap = HeapAppend(NewLists(@, 1), r, tag_info)]]
              ELSE [text |-> new, s |-> s1]
         ELSE [text |-> combined, s |-> s1]

\* ------------------------------------------------- div_links_extract_all
\* A link is named by the node that carries it: an internal link also by its
\* descriptor kind.
div_links_extract_all(el, p) ==
    [internal_links  |-> [k \in 1..Len(el.ilinks) |-> [node |-> p, kind |-> el.ilinks[k]]],
     external_links  |-> [k \in 1..el.elinks |-> [node |-> p, kind |-> "href"]],
     intercode_links |-> [k \in 1..el.elinks |-> [node |-> p, kind |-> "destination_id"]],
     image_links     |-> [k \in 1..el.elinks |-> [node |-> p, kind |-> "src"]]]

\* parse_internal_link(link)['hash'] is not None
LinkHasHash(link) == link.kind # "nohash"
\* 'NewOrd' in link or 'new' in link.lower()
LinkIsNew(link) == link.kind = "newhash"

\* the reference built for a link that has a hash
Reference(link) == [hash |-> link, reference_string |-> link, record_id |-> link]

\* _process_internal_links building a reference for every link
ReferencesOf_All(links) == [k \in 1..Len(links) |-> Reference(links[k])]

RECURSIVE ReferencesOf(_)
ReferencesOf(links) ==
    IF links = <<>> THEN <<>>
    ELSE (IF LinkHasHash(Head(links)) THEN <<Reference(Head(links))>> ELSE <<>>)
         \o ReferencesOf(Tail(links))

_process_internal_links(s, internal_links) ==
    [s EXCEPT !.heap = HeapExtend(@, s.md.references, ReferencesOf(internal_links))]

\* one entry per History div of the element, named by the node
div_history_extract(el, p) ==
    [added_by   |-> [k \in 1..el.hist |-> p],
     amended_by |-> [k \in 1..el.hist |-> p],
     see_also   |-> <<>>]

process_metadata_links(s, el, p) ==
    LET all_links == div_links_extract_all(el, p)
        al == s.md.all_links
        h1 == HeapExtend(s.heap, al.internal_links, all_links.internal_links)
        h2 == HeapExtend(h1, al.external_links, all_links.external_links)
        h3 == HeapExtend(h2, al.intercode_links, all_links.intercode_links)
        h4 == HeapExtend(h3, al.image_links, all_links.image_links)
        s1 == _process_internal_links([s EXCEPT !.heap = h4], all_links.internal_links)
        history_data == div_history_extract(el, p)
    IN IF history_data.added_by # <<>> \/ history_data.amended_by # <<>>
          \/ history_data.see_also # <<>>
       THEN [s1 EXCEPT !.md.history_data = history_data]
       ELSE s1

RECURSIVE NewLinks(_)
NewLinks(links) ==
    IF links = <<>> THEN <<>>
    ELSE (IF LinkIsNew(Head(links)) THEN <<Head(links)>> ELSE <<>>) \o NewLinks(Tail(links))

\* text_lower: 'new ordinance' occurs in the element's text (lower-cased)
process_new_ordinance_links(s, el, p) ==
    IF el.neword
    THEN LET all_links == div_links_extract_all(el, p)
             al == s.md.all_links
             h1 == HeapExtend(s.heap, s.md.new_ordinance_links, NewLinks(all_links.internal_links))
             h2 == HeapExtend(h1, al.internal_links, all_links.internal_links)
             h3 == HeapExtend(h2, al.external_links, all_links.external_links)
         IN [s EXCEPT !.heap = h3]
    ELSE s

\* ------------------------------------------- _reset_metadata_for_new_section
ResetFields(level) == UNION {FieldSet(i) : i \in level..5}

\* the reset starting one level too low: range(current_level_index + 1, ...)
Reset_FromNextLevel(s, level) ==
    LET r == Len(s.heap)
        m1 == [s.md EXCEPT
                 !.all_links = [internal_links |-> r + 1, external_links |-> r + 2,
                                intercode_links |-> r + 3, image_links |-> r + 4],
                 !.history_data = [added_by |-> <<>>, amended_by |-> <<>>, see_also |-> <<>>],
                 !.references = r + 5,
                 !.new_ordinance_links = r + 6,
                 !.hash = None,
                 !.chunk_index = 1,
                 !.div_classes = r + 7,
                 !.html_tags = r + 8]
    IN [s EXCEPT !.heap = NewLists(@, 8),
                 !.md = [f \in DOMAIN m1 |-> IF f \in ResetFields(level + 1) THEN None ELSE m1[f]]]

\* the reset without metadata['chunk_index'] = 1
Reset_KeepIndex(s, level) ==
    LET r == Len(s.heap)
        m1 == [s.md EXCEPT
                 !.all_links = [internal_links |-> r + 1, external_links |-> r + 2,
                                intercode_links |-> r + 3, image_links |-> r + 4],
                 !.history_data = [added_by |-> <<>>, amended_by |-> <<>>, see_also |-> <<>>],
                 !.references = r + 5,
                 !.new_ordinance_links = r + 6,
                 !.hash = None,
                 !.div_classes = r + 7,
                 !.html_tags = r + 8]
    IN [s EXCEPT !.heap = NewLists(@, 8),
                 !.md = [f \in DOMAIN m1 |-> IF f \in ResetFields(level) THEN None ELSE m1[f]]]

\* the reset without metadata['hash'] = None
Reset_KeepHash(s, level) ==
    LET r == Len(s.heap)
        m1 == [s.md EXCEPT
                 !.all_links = [internal_links |-> r + 1, external_links |-> r + 2,
                                intercode_links |-> r + 3, image_links |-> r + 4],
                 !.history_data = [added_by |-> <<>>, amended_by |-> <<>>, see_also |-> <<>>],
                 !.references = r + 5,
                 !.new_ordinance_links = r + 6,
                 !.chunk_index = 1,
                 !.div_classes = r + 7,
                 !.html_tags = r + 8]
    IN [s EXCEPT !.heap = NewLists(@, 8),
                 !.md = [f \in DOMAIN m1 |-> IF f \in ResetFields(level) THEN None ELSE m1[f]]]

\* the reset deleting the key 'chunk_index' instead of setting it to 1
Reset_DropIndex(s, level) ==
    LET t == Reset_KeepIndex(s, level)
    IN [md |-> [f \in DOMAIN t.md \ {"chunk_index"} |-> t.md[f]],
        heap |-> t.heap, chunks |-> t.chunks, chunk_number |-> t.chunk_number,
        emitted |-> t.emitted, raised |-> t.raised]

_reset_metadata_for_new_section(s, level) ==
    LET r == Len(s.heap)
        m1 == [s.md EXCEPT
                 !.all_links = [internal_links |-> r + 1, external_links |-> r + 2,
                                intercode_links |-> r + 3, image_links |-> r + 4],
                 !.history_data = [added_by |-> <<>>, amended_by |-> <<>>, see_also |-> <<>>],
                 !.references = r + 5,
                 !.new_ordinance_links = r + 6,
                 !.hash = None,
                 !.chunk_index = 1,
                 !.div_classes = r + 7,
                 !.html_tags = r + 8]
    IN [s EXCEPT !.heap = NewLists(@, 8),
                 !.md = [f \in DOMAIN m1 |-> IF f \in ResetFields(level) THEN None ELSE m1[f]]]

\* ---------------------------------------------------- is_structural_element
\* the first hierarchy level, in the order of hierarchy_tags, that matches;
\* 0 stands for None
\* is_structural_element returning the last matching level of hierarchy_tags
is_structural_element_Last(el) ==
    IF el.levels = {} THEN 0
    ELSE CHOOSE i \in el.levels : \A j \in el.levels : i >= j

is_structural_element(el) ==
    IF el.levels = {} THEN 0
    ELSE CHOOSE i \in el.levels : \A j \in el.levels : i <= j

\* ------------------------------------------------- _extract_structural_data
\* the dict of extracted fields, as a function from its keys
_extract_structural_data(el, level, p) ==
    IF ~el.content_div THEN [f \in {} |-> None]
    ELSE
      LET element_text == IF el.elem_text THEN Str(p, "text", TRUE) ELSE EmptyStr
          anchor == IF el.anchor THEN (AnchorField(level) :> Str(p, "anchor", FALSE))
                    ELSE [f \in {} |-> None]
          main == (LevelFields(level)[1] :> element_text)
          extracted ==
              IF level = 2
              THEN IF el.match
                   THEN ("article_number" :> Str(p, "number", TRUE))
                        @@ ("article_title" :> Str(p, "title", TRUE))
                   ELSE ("article_title" :> element_text)
              ELSE IF level = 4 /\ el.match
                   THEN ("section_number" :> Str(p, "number", TRUE))
                   ELSE [f \in {} |-> None]
      IN extracted @@ main @@ anchor

\* current_metadata.update(extracted_data)
Update(md, data) == [f \in DOMAIN md |-> IF f \in DOMAIN data THEN data[f] ELSE md[f]]

\* ------------------------------------------------------------ process_footnote
\* f"\n\n[Footnote {marker}] {text}", or None (<<>>) without the two cells
FootnoteText(el, p) ==
    IF el.cells THEN <<NL, NL, Deco, p, Deco, p>> ELSE <<>>

\* ----------------------------------------------------------------- parse()
\* history of the last step: the arguments of its call of
\* add_text_to_current_chunk (with the number of chunks and the chunk_index
\* before it), or the level of the boundary it processed
NoCall == [called |-> FALSE, cur |-> <<>>, new |-> <<>>, nchunks |-> 0, idx |-> 0, level |-> 0]
Call(cur, new) ==
    [called |-> TRUE, cur |-> cur, new |-> new, nchunks |-> Len(chunks),
     idx |-> current_metadata.chunk_index, level |-> 0]
Boundary(level) == [NoCall EXCEPT !.level = level]

Live == State(current_metadata, heap, chunks, chunk_number, emitted)

\* assigns the interpreter state s to the variables
Commit(s) ==
    /\ current_metadata' = s.md
    /\ heap' = s.heap
    /\ chunks' = s.chunks
    /\ chunk_number' = s.chunk_number
    /\ emitted' = s.emitted

\* Commit, and the control state: an exception raised by _save_chunk is not
\* caught in parse() and ends it
After(s, nextpc) ==
    /\ Commit(s)
    /\ pc' = IF s.raised THEN "raised" ELSE nextpc

Init ==
    /\ pc = "loop"
    /\ n = 0
    /\ current_text = <<>>
    /\ current_metadata = InitMetadata
    /\ heap = NewLists(<<>>, 8)
    /\ chunks = <<>>
    /\ chunk_number = 1
    /\ unhandled_text = <<>>
    /\ sec = 0
    /\ emitted = <<>>
    /\ handed = <<>>
    /\ source = <<>>
    /\ last = NoCall
    /\ inputs = <<>>
    /\ doc = <<>>
    /\ arg = <<>>
    /\ ret = <<>>

\* the structural branch resetting the metadata before it saves the buffer
StructuralStep_ResetFirst(el) ==
    LET p == n + 1
        text_content == TextOf(p, el.len)
        level == is_structural_element(el)
        flushed == IF current_text[Len(current_text)] # NL
                   THEN Append(current_text, NL) ELSE current_text
        s1 == _reset_metadata_for_new_section(Live, level)
        s2 == IF current_text # <<>> THEN SaveChunk(s1, flushed, "boundary", sec) ELSE s1
        extracted_data == _extract_structural_data(el, level, p)
        s3 == [s2 EXCEPT !.md = Update(@, extracted_data)]
        s4 == IF AnchorField(level) \in DOMAIN extracted_data
              THEN [s3 EXCEPT !.md.hash = Str(p, "hash", FALSE)] ELSE s3
        s5 == IF text_content # <<>>
              THEN [s4 EXCEPT !.heap = HeapAppend(@, s4.md.html_tags, TagInfo(el, p, text_content))]
              ELSE s4
    IN /\ After(s5, "loop")
       /\ current_text' = text_content
       /\ sec' = sec + 1
       /\ handed' = IF text_content # <<>> THEN Append(handed, text_content) ELSE handed
       /\ source' = source \o text_content
       /\ last' = Boundary(level)
       /\ UNCHANGED unhandled_text

\* lines 394-434: the element matches a hierarchy level
StructuralStep(el) ==
    LET p == n + 1
        text_content == TextOf(p, el.len)
        level == is_structural_element(el)
        flushed == IF current_text[Len(current_text)] # NL
                   THEN Append(current_text, NL) ELSE current_text
        s1 == IF current_text # <<>> THEN SaveChunk(Live, flushed, "boundary", sec) ELSE Live
        s2 == _reset_metadata_for_new_section(s1, level)
        extracted_data == _extract_structural_data(el, level, p)
        s3 == [s2 EXCEPT !.md = Update(@, extracted_data)]
        s4 == IF AnchorField(level) \in DOMAIN extracted_data
              THEN [s3 EXCEPT !.md.hash = Str(p, "hash", FALSE)] ELSE s3
        s5 == IF text_content # <<>>
              THEN [s4 EXCEPT !.heap = HeapAppend(@, s4.md.html_tags, TagInfo(el, p, text_content))]
              ELSE s4
    IN /\ After(s5, "loop")
       /\ current_text' = text_content
       /\ sec' = sec + 1
       /\ handed' = IF text_content # <<>> THEN Append(handed, text_content) ELSE handed
       /\ source' = source \o text_content
       /\ last' = Boundary(level)
       /\ UNCHANGED unhandled_text

\* lines 439-464: a Normal-Level content element
ContentStep(el) ==
    LET p == n + 1
        text_content == TextOf(p, el.len)
        s0 == IF el.inner # "" /\ ~(\E k \in 1..Len(heap[current_metadata.div_classes]) :
                                     heap[current_metadata.div_classes][k] = el.inner)
              THEN [Live EXCEPT !.heap = HeapAppend(@, current_metadata.div_classes, el.inner)]
              ELSE Live
        s1 == process_metadata_links(s0, el, p)
        r  == AddText(s1, current_text, text_content, el, p, sec)
        s2 == IF el.id THEN [r.s EXCEPT !.md.section_id = Str(p, "id", FALSE)] ELSE r.s
    IN IF text_content # <<>>
       THEN /\ After(s2, "loop")
            /\ current_text' = r.text
            /\ handed' = Append(handed, text_content)
            /\ source' = source \o text_content
            /\ last' = Call(current_text, text_content)
            /\ UNCHANGED <<unhandled_text, sec>>
       ELSE /\ last' = NoCall
            /\ UNCHANGED <<pc, current_text, current_metadata, heap, chunks, chunk_number,
                           unhandled_text, sec, emitted, handed, source>>

\* lines 465-473: a footnote table
FootnoteStep(el) ==
    LET p == n + 1
        footnote_text == FootnoteText(el, p)
        r == AddText(Live, current_text, footnote_text, el, p, sec)
    IN IF footnote_text # <<>>
       THEN /\ After(r.s, "loop")
            /\ current_text' = r.text
            /\ handed' = Append(handed, footnote_text)
            /\ source' = source \o TextOf(p, el.len)
            /\ last' = Call(current_text, footnote_text)
            /\ UNCHANGED <<unhandled_text, sec>>
       ELSE /\ source' = source \o TextOf(p, el.len)
            /\ last' = NoCall
            /\ UNCHANGED <<pc, current_text, current_metadata, heap, chunks, chunk_number,
                           unhandled_text, sec, emitted, handed>>

\* lines 474-500: any other rbox element, with its extracted text
FallbackStep(el, text_content) ==
    LET p == n + 1
        r == AddText(Live, current_text, text_content, el, p, sec)
        s1 == process_new_ordinance_links(r.s, el, p)
    IN IF text_content # <<>> /\ el.rbox
       THEN /\ After(s1, "loop")
            /\ current_text' = r.text
            /\ unhandled_text' = Append(unhandled_text,
                   [node |-> p, full_length |-> Len(text_content), status |-> "included"])
            /\ handed' = Append(handed, text_content)
            /\ source' = source \o text_content
            /\ last' = Call(current_text, text_content)
            /\ UNCHANGED sec
       ELSE /\ source' = source \o text_content
            /\ last' = NoCall
            /\ UNCHANGED <<pc, current_text, current_metadata, heap, chunks, chunk_number,
                           unhandled_text, sec, emitted, handed>>

OtherStep(el) == FallbackStep(el, TextOf(n + 1, el.len))

\* the branch of the if / elif chain of parse() that an element takes
\* (lines 394, 439, 465, 474)
Branch(el) ==
    IF is_structural_element(el) # 0 THEN "structural"
    ELSE IF el.normal THEN "content"
    ELSE IF el.name = "table" /\ el.footnote THEN "footnote"
    ELSE "other"

\* what the history keeps of a visited element: its branch, and the links
\* and History divs that div_links_extract_all and div_history_extract
\* would find in it
Visited(el) ==
    [branch |-> Branch(el), ilinks |-> el.ilinks, elinks |-> el.elinks, hist |-> el.hist]

\* one iteration of the for loop of parse() (lines 379-500)
Structural ==
    /\ pc = "loop" /\ n < MaxElems
    /\ \E el \in Elements :
         /\ is_structural_element(el) # 0
         /\ StructuralStep(el)
         /\ inputs' = Append(inputs, Visited(el))
         /\ UNCHANGED <<doc, arg, ret>>
    /\ n' = n + 1

Content ==
    /\ pc = "loop" /\ n < MaxElems
    /\ \E el \in Elements :
         /\ is_structural_element(el) = 0
         /\ el.normal
         /\ ContentStep(el)
         /\ inputs' = Append(inputs, Visited(el))
         /\ UNCHANGED <<doc, arg, ret>>
    /\ n' = n + 1

Footnote ==
    /\ pc = "loop" /\ n < MaxElems
    /\ \E el \in Elements :
         /\ is_structural_element(el) = 0
         /\ ~el.normal
         /\ el.name = "table" /\ el.footnote
         /\ FootnoteStep(el)
         /\ inputs' = Append(inputs, Visited(el))
         /\ UNCHANGED <<doc, arg, ret>>
    /\ n' = n + 1

Other ==
    /\ pc = "loop" /\ n < MaxElems
    /\ \E el \in Elements :
         /\ is_structural_element(el) = 0
         /\ ~el.normal
         /\ ~(el.name = "table" /\ el.footnote)
         /\ OtherStep(el)
         /\ inputs' = Append(inputs, Visited(el))
         /\ UNCHANGED <<doc, arg, ret>>
    /\ n' = n + 1

\* parse() returning without the final save
Finish_NoFlush ==
    /\ pc = "loop"
    /\ pc' = "done"
    /\ last' = NoCall
    /\ UNCHANGED <<n, current_text, current_metadata, heap, chunks, chunk_number,
                   unhandled_text, sec, emitted, handed, source, inputs, doc, arg, ret>>

\* parse() saving the buffer at the end without testing it
Finish_Always ==
    /\ pc = "loop"
    /\ After(SaveChunk(Live, current_text, "final", sec), "done")
    /\ last' = NoCall
    /\ UNCHANGED <<n, current_text, unhandled_text, sec, handed, source, inputs, doc, arg, ret>>

\* lines 502-504 and the return: the final chunk
Finish ==
    /\ pc = "loop"
    /\ After(IF current_text # <<>> THEN SaveChunk(Live, current_text, "final", sec) ELSE Live,
             "done")
    /\ last' = NoCall
    /\ UNCHANGED <<n, current_text, unhandled_text, sec, handed, source, inputs, doc, arg, ret>>

Next == Structural \/ Content \/ Footnote \/ Other \/ Finish

Spec == Init /\ [][Next]_vars

\* The element list is finite: the for loop of parse() ends and the
\* statements after it (lines 502-529) run.
FairSpec == Spec /\ WF_vars(Finish)

\* ------------------------------------------- parse() run twice on one input
\* The elements of the repeated runs: one character of text, no external
\* link, no History div.
TwinElems == {el \in Elements : el.len = 1 /\ el.elinks = 0 /\ el.hist = 0}

TwinInputs == UNION {[1..k -> TwinElems] : k \in 1..MaxElems}

\* what a caller compares of a returned chunk
Returned(c) ==
    [doc_id |-> c.doc_id, uuid |-> c.uuid, chunk_id |-> c.chunk_id,
     chunk_index |-> c.chunk_index, chunk_number |-> c.chunk_number,
     content |-> c.content, processing_timestamp |-> c.processing_timestamp]

\* arg is the element sequence that find_all returns for the input file.
InitTwice ==
    /\ pc = "loop"
    /\ n = 0
    /\ current_text = <<>>
    /\ current_metadata = InitMetadata
    /\ heap = NewLists(<<>>, 8)
    /\ chunks = <<>>
    /\ chunk_number = 1
    /\ unhandled_text = <<>>
    /\ sec = 0
    /\ emitted = <<>>
    /\ handed = <<>>
    /\ source = <<>>
    /\ last = NoCall
    /\ inputs = <<>>
    /\ doc = <<>>
    /\ arg \in TwinInputs
    /\ ret = <<>>

\* one iteration of the for loop of parse() over the sequence all_elements
WalkStep(all_elements) ==
    /\ pc = "loop" /\ n < Len(all_elements)
    /\ LET el == all_elements[n + 1] IN
         /\ CASE Branch(el) = "structural" -> StructuralStep(el)
              [] Branch(el) = "content" -> ContentStep(el)
              [] Branch(el) = "footnote" -> FootnoteStep(el)
              [] OTHER -> OtherStep(el)
         /\ inputs' = Append(inputs, Visited(el))
    /\ n' = n + 1
    /\ UNCHANGED <<doc, arg, ret>>

TwiceStep == WalkStep(arg)

TwiceFinish == n = Len(arg) /\ Finish

\* The caller keeps the list the first run returned and runs a new
\* SFCodeParser (lines 19-37) on the same file.
Restart ==
    /\ pc = "done" /\ ret = <<>>
    /\ ret' = [k \in 1..Len(chunks) |-> Returned(chunks[k])]
    /\ pc' = "loop"
    /\ n' = 0
    /\ current_text' = <<>>
    /\ current_metadata' = InitMetadata
    /\ heap' = NewLists(<<>>, 8)
    /\ chunks' = <<>>
    /\ chunk_number' = 1
    /\ unhandled_text' = <<>>
    /\ sec' = 0
    /\ emitted' = <<>>
    /\ handed' = <<>>
    /\ source' = <<>>
    /\ last' = NoCall
    /\ inputs' = <<>>
    /\ UNCHANGED <<doc, arg>>

SpecTwice == InitTwice /\ [][TwiceStep \/ TwiceFinish \/ Restart]_vars

\* ------------------------------------------------ parse() opening its input
\* arg is the file named by html_file: whether open() can read it, and the
\* elements find_all returns for its text.
Files == [readable : BOOLEAN, elements : TwinInputs]

InitFile ==
    /\ pc = "open"
    /\ n = 0
    /\ current_text = <<>>
    /\ current_metadata = InitMetadata
    /\ heap = NewLists(<<>>, 8)
    /\ chunks = <<>>
    /\ chunk_number = 1
    /\ unhandled_text = <<>>
    /\ sec = 0
    /\ emitted = <<>>
    /\ handed = <<>>
    /\ source = <<>>
    /\ last = NoCall
    /\ inputs = <<>>
    /\ doc = <<>>
    /\ arg \in Files
    /\ ret = <<>>

\* open() failing silently: the traversal starts all the same
Open_Swallowed ==
    /\ pc = "open"
    /\ pc' = "loop"
    /\ UNCHANGED <<n, current_text, current_metadata, heap, chunks, chunk_number,
                   unhandled_text, sec, emitted, handed, source, last, inputs,
                   doc, arg, ret>>

\* lines 291-292: open() raises OSError for a file it cannot read, and
\* parse() has no handler for it.
Open ==
    /\ pc = "open"
    /\ pc' = IF arg.readable THEN "loop" ELSE "raised"
    /\ UNCHANGED <<n, current_text, current_metadata, heap, chunks, chunk_number,
                   unhandled_text, sec, emitted, handed, source, last, inputs,
                   doc, arg, ret>>

FileStep == WalkStep(arg.elements)

FileFinish == n = Len(arg.elements) /\ Finish

SpecFile == InitFile /\ [][Open \/ FileStep \/ FileFinish]_vars

\* ------------------------------------------------ elements by their classes
\* How a keyword occurs in the class list of a tag: not at all, inside a
\* longer class name only ("part"), or as a class of its own ("whole").
\* 'kw in classes' holds for "whole"; 'kw in cls' for some class and
\* 'kw in class_str' hold for "part" and "whole".
Occurrences == {"no", "part", "whole"}

\* A tag by what has_target_class, parse() and classify_element read of it:
\* its name, the occurrences of 'rbox', 'Normal-Level' and 'footnote', the
\* hierarchy levels whose keyword occurs in it, its classes among EdNote,
\* History and clearfix, and the length of its extracted text.
ClassedTags ==
    [name : {"div", "table"}, rbox : Occurrences, normal : Occurrences,
     footnote : Occurrences, levels : SUBSET Levels,
     extra : SUBSET {"EdNote", "History", "clearfix"}, len : 0..1]

\* has_target_class, lines 295-304
IsTarget(t) ==
    IF t.name = "div" THEN t.rbox # "no"
    ELSE t.name = "table" /\ t.footnote = "whole"

\* element.get('class') is truthy: the tag has a class
HasClass(t) ==
    t.rbox # "no" \/ t.normal # "no" \/ t.footnote # "no" \/ t.levels # {} \/ t.extra # {}

\* lines 194-236; a div falls through to the last return when none of its
\* tests returns.  The tags here are never named p, td, script or span.
classify_element(t) ==
    IF t.name = "div" /\ HasClass(t)
    THEN IF t.rbox = "whole"
         THEN IF t.levels # {} THEN "structural"
              ELSE IF t.normal = "whole" THEN "content"
              ELSE "other_rbox"
         ELSE IF "EdNote" \in t.extra THEN "editor_note"
         ELSE IF "History" \in t.extra THEN "history"
         ELSE "skip"
    ELSE IF t.name = "table" /\ t.footnote = "whole" THEN "footnote"
    ELSE "skip"

\* the element as parse() reads it (lines 386-392, 439, 465, 486): a
\* heading with an anchor when it is a boundary, a table with its cells
ElementOf(t) ==
    [Elem(t.name, t.levels, t.normal # "no", t.len, FALSE, TRUE, TRUE, TRUE, FALSE,
          <<>>, 0, 0, TRUE)
       EXCEPT !.rbox = (t.rbox # "no"), !.footnote = (t.footnote # "no")]

InitClass ==
    /\ pc = "loop"
    /\ n = 0
    /\ current_text = <<>>
    /\ current_metadata = InitMetadata
    /\ heap = NewLists(<<>>, 8)
    /\ chunks = <<>>
    /\ chunk_number = 1
    /\ unhandled_text = <<>>
    /\ sec = 0
    /\ emitted = <<>>
    /\ handed = <<>>
    /\ source = <<>>
    /\ last = NoCall
    /\ inputs = <<>>
    /\ doc = <<>>
    /\ arg \in {t \in ClassedTags : IsTarget(t)}
    /\ ret = <<>>

\* parse() on a file whose only selected element is arg
ClassStep == WalkStep(<<ElementOf(arg)>>)

ClassFinish == n = 1 /\ Finish

\* classify_element(arg), called on its own after the walk
ClassifyCall ==
    /\ pc = "done"
    /\ pc' = "returned"
    /\ ret' = <<classify_element(arg)>>
    /\ UNCHANGED <<n, current_text, current_metadata, heap, chunks, chunk_number,
                   unhandled_text, sec, emitted, handed, source, last, inputs, doc, arg>>

SpecClass == InitClass /\ [][ClassStep \/ ClassFinish \/ ClassifyCall]_vars

\* ------------------------------------------------ _save_chunk called directly
\* a metadata dict without the key 'chunk_index'
WithoutIndex(md) == [f \in DOMAIN md \ {"chunk_index"} |-> md[f]]

\* the metadata dicts a caller passes: with or without a chapter, with a
\* chunk_index of 1 or 2 or without the key
SaveArgs ==
    LET keyed == {[InitMetadata EXCEPT !.chapter = ch, !.chunk_index = i] :
                     ch \in {None, Str(1, "text", TRUE)}, i \in 1..2}
    IN keyed \cup {WithoutIndex(md) : md \in keyed}

InitSave ==
    /\ pc = "call"
    /\ n = 0
    /\ current_text = <<>>
    /\ current_metadata = InitMetadata
    /\ heap = NewLists(<<>>, 8)
    /\ chunks = <<>>
    /\ chunk_number = 1
    /\ unhandled_text = <<>>
    /\ sec = 0
    /\ emitted = <<>>
    /\ handed = <<>>
    /\ source = <<>>
    /\ last = NoCall
    /\ inputs = <<>>
    /\ doc = <<>>
    /\ arg = <<>>
    /\ ret = <<>>

\* one call _save_chunk(text, metadata, static_metadata); the arguments are
\* recorded in current_text and current_metadata.  A raised ValueError ends
\* the caller.
SaveCall ==
    /\ pc = "call" /\ n < MaxElems
    /\ \E md \in SaveArgs : \E l \in 1..MaxTextLen :
         LET text == TextOf(n + 1, l)
             s == SaveChunk(State(md, heap, chunks, chunk_number, emitted), text, "call", 0)
         IN /\ After(s, "call")
            /\ current_text' = text
    /\ n' = n + 1
    /\ UNCHANGED <<unhandled_text, sec, handed, source, last, inputs, doc, arg, ret>>

SpecSave == InitSave /\ [][SaveCall]_vars

\* ------------------------------------------- helper functions on their own
\* A string is a sequence of tokens.  A token is one character of a class
\* the regular expressions tell apart, or a word they look for as a whole:
\*   "I"  one of IVXLCDM          "A"  the letter A
\*   "b"  another letter          "5"  a digit
\*   "-"  the hyphen              "."  a character outside [\d\w-]
\*   "Article", "Appendix", "JD_"  these words
RomanTokens == {"I"}
WordTokens == {"I", "A", "b", "5", "-", "Article", "Appendix", "JD_"}
RefTokens == WordTokens \cup {"."}

\* a missing component of a link descriptor, and Python's None
NoValue == <<"None">>

\* the identifiers R that can stand behind '#JD_'
RefIds == UNION {[1..l -> RefTokens] : l \in 1..MaxRefLen}

\* Link descriptors: with a pathname of one or two segments or without one;
\* without hash, with the hash '#JD_' + R, or with a hash '#b' + R that does
\* not start with JD_ (R of one token).
LinkArgs ==
    {[pathname |-> pn, hash |-> h] :
        pn \in {NoValue, <<"0-0-0-18">>, <<"codes", "0-0-0-7">>},
        h \in {NoValue} \cup {<<"JD_">> \o r : r \in RefIds}
              \cup {<<"b", t>> : t \in RefTokens}}

\* lines 627-649; the hash is kept without its '#'
parse_internal_link(link) ==
    [pathname |-> link.pathname,
     hash |-> link.hash,
     record_id |-> IF link.pathname # NoValue
                   THEN <<link.pathname[Len(link.pathname)]>> ELSE NoValue]

\* the longest prefix of text whose tokens are all in class
RECURSIVE Greedy(_, _)
Greedy(text, class) ==
    IF text # <<>> /\ Head(text) \in class
    THEN <<Head(text)>> \o Greedy(Tail(text), class) ELSE <<>>

\* re.match(r'Article([IVXLCDM]+|[\d\w-]+)', jd_ref).group(1) for a jd_ref
\* that starts with 'Article'; <<>> where the expression does not match
ArticleGroup(jd_ref) ==
    IF Greedy(Tail(jd_ref), RomanTokens) # <<>>
    THEN Greedy(Tail(jd_ref), RomanTokens)
    ELSE Greedy(Tail(jd_ref), WordTokens)

\* lines 651-677
parse_internal_hierarchy_ref(link) ==
    IF link.hash = NoValue \/ Len(link.hash) < 2 \/ Head(link.hash) # "JD_"
    THEN NoValue
    ELSE LET jd_ref == SelectSeq(link.hash, LAMBDA t : t # "JD_")
         IN IF jd_ref # <<>> /\ Head(jd_ref) = "Article"
            THEN IF ArticleGroup(jd_ref) # <<>>
                 THEN <<"Article", " ">> \o ArticleGroup(jd_ref)
                 ELSE NoValue
            ELSE IF Len(jd_ref) >= 2 /\ jd_ref[1] = "A" /\ jd_ref[2] = "5"
            THEN <<"Section", " ">> \o jd_ref
            ELSE IF jd_ref # <<>> /\ jd_ref[1] = "5"
            THEN <<"Section", " ">> \o jd_ref
            ELSE jd_ref

\* lines 533-547: the references appended for one link
ReferencesFor(link) ==
    LET link_info == parse_internal_link(link)
        ref_string == parse_internal_hierarchy_ref(link)
    IN IF link_info.hash # NoValue
       THEN <<[hash |-> link_info.hash,
               reference_string |-> IF ref_string # NoValue /\ ref_string # <<>>
                                    THEN ref_string ELSE link_info.record_id,
               record_id |-> link_info.record_id]>>
       ELSE <<>>

\* The text of a History div, in tokens: the words "Added by" and
\* "Amended by" (in any case), "Ord" for 'Ord. ' and an ordinance number,
\* which is named by its position in the text, and ";" and ",", which stand
\* directly behind the token before them; other tokens are a blank apart.
HistoryTokens == {"Added by", "Amended by", "Ord", ";", ","}
HistoryTexts == UNION {[1..l -> HistoryTokens] : l \in 1..MaxHistLen}

\* re.search(keyword + r'\s+(.*?)(?:;|$)', text): the position of the first
\* keyword that a blank follows, 0 if there is none
KeywordAt(text, keyword) ==
    LET hits == {i \in 1..(Len(text) - 1) :
                    text[i] = keyword /\ text[i + 1] \notin {";", ","}}
    IN IF hits = {} THEN 0 ELSE CHOOSE i \in hits : \A j \in hits : i <= j

\* group(1): the positions behind the keyword up to the first ";" or the end
ClauseOf(text, i) ==
    LET stops == {j \in (i + 1)..Len(text) : text[j] = ";"}
        stop == IF stops = {} THEN Len(text) + 1
                ELSE CHOOSE j \in stops : \A k \in stops : j <= k
    IN (i + 1)..(stop - 1)

\* re.findall(r'Ord\.?\s*([^;\s,)]+)', clause): the ordinance numbers at the
\* positions of the clause, in order
OrdsIn(text, clause) ==
    SelectSeq([j \in 1..Len(text) |-> j], LAMBDA j : j \in clause /\ text[j] = "Ord")

\* lines 679-711 for an element with one History div of text history_text
HistoryOfText(history_text) ==
    LET a == KeywordAt(history_text, "Added by")
        m == KeywordAt(history_text, "Amended by")
    IN [added_by   |-> IF a # 0 THEN OrdsIn(history_text, ClauseOf(history_text, a)) ELSE <<>>,
        amended_by |-> IF m # 0 THEN OrdsIn(history_text, ClauseOf(history_text, m)) ELSE <<>>,
        see_also   |-> <<>>]

\* ------------------------------------------------------- analyze_chunks.py
\* load_chunks(filename): the chunks of the file in file order; chunk k has
\* chunk_number k, and its content is as long as its character_count.
ChunkFiles ==
    UNION {[1..k -> 0..MaxTextLen] : k \in 0..MaxElems}

Data(counts) == [k \in 1..Len(counts) |-> [chunk_number |-> k, character_count |-> counts[k]]]

\* an optional integer: <<>> is None
Some(v) == <<v>>

\* lines 59-70
find_all_short_chunks(data, max_length) ==
    SelectSeq(data, LAMBDA chunk : chunk.character_count <= max_length)

\* lines 72-101; array_index counts from 0
find_short_chunks(data, max_length) ==
    LET short == SelectSeq([i \in 1..Len(data) |-> i],
                           LAMBDA i : data[i].character_count <= max_length)
    IN [k \in 1..Len(short) |->
           LET i == short[k] IN
           [array_index |-> i - 1,
            chunk_number |-> data[i].chunk_number,
            character_count |-> data[i].character_count,
            predecessor_length |->
                IF i - 1 > 0 THEN Some(data[i - 1].character_count) ELSE <<>>]]

\* --------------------------------------------------------- code_helpers.py
\* The hash of a chunk or of a reference: "" stands for a missing or None
\* hash (falsy), the others for '#JD_...' strings.
Hashes == {"", "#JD_1", "#JD_2"}

\* json.load(f): chunk k of the file has chunk_number k
HashedFiles == UNION {[1..k -> Hashes] : k \in 0..MaxElems}
HashedChunks(hs) == [k \in 1..Len(hs) |-> [chunk_number |-> k, hash |-> hs[k]]]

\* source_chunk['references'], by the hash of each reference
ReferenceLists == UNION {[1..k -> Hashes] : k \in 0..MaxRefs}

\* lines 242-246: hash_map[chunk['hash']] = chunk for every chunk in file
\* order, a later chunk replacing an earlier one under the same key
RECURSIVE HashMap(_)
HashMap(all_chunks) ==
    IF all_chunks = <<>> THEN [h \in {} |-> <<>>]
    ELSE LET chunk == all_chunks[Len(all_chunks)]
             hash_map == HashMap(SubSeq(all_chunks, 1, Len(all_chunks) - 1))
         IN IF chunk.hash # "" THEN (chunk.hash :> chunk) @@ hash_map ELSE hash_map

\* lines 224-282 with reference_index=None
RECURSIVE ReferencedChunks(_, _)
ReferencedChunks(hash_map, references) ==
    IF references = <<>> THEN <<>>
    ELSE LET target_hash == Head(references) IN
         (IF target_hash # "" /\ target_hash \in DOMAIN hash_map
          THEN <<hash_map[target_hash]>> ELSE <<>>)
         \o ReferencedChunks(hash_map, Tail(references))

get_referenced_chunks_from_chunk(all_chunks, references) ==
    ReferencedChunks(HashMap(all_chunks), references)

FunArgs ==
    {[fn |-> "_process_internal_links", link |-> l] : l \in LinkArgs}
    \cup {[fn |-> "div_history_extract", text |-> t] : t \in HistoryTexts}
    \cup {[fn |-> f, data |-> Data(c), max_length |-> m] :
              f \in {"find_short_chunks", "find_all_short_chunks"},
              c \in ChunkFiles, m \in 0..MaxTextLen}
    \cup {[fn |-> "get_referenced_chunks_from_chunk", all_chunks |-> HashedChunks(hs),
           references |-> r] : hs \in HashedFiles, r \in ReferenceLists}

InitFun ==
    /\ pc = "call"
    /\ n = 0
    /\ current_text = <<>>
    /\ current_metadata = InitMetadata
    /\ heap = NewLists(<<>>, 8)
    /\ chunks = <<>>
    /\ chunk_number = 1
    /\ unhandled_text = <<>>
    /\ sec = 0
    /\ emitted = <<>>
    /\ handed = <<>>
    /\ source = <<>>
    /\ last = NoCall
    /\ inputs = <<>>
    /\ doc = <<>>
    /\ arg \in FunArgs
    /\ ret = <<>>

\* a call that touches nothing but its result
Returns(value) ==
    /\ pc = "call"
    /\ pc' = "returned"
    /\ ret' = value
    /\ UNCHANGED <<n, current_text, current_metadata, heap, chunks, chunk_number,
                   unhandled_text, sec, emitted, handed, source, last, inputs, doc, arg>>

\* _process_internal_links([link], metadata) on an empty reference list
ReferenceCall ==
    /\ arg.fn = "_process_internal_links"
    /\ Returns(ReferencesFor(arg.link))

\* div_history_extract(element), the element holding one History div
HistoryCall ==
    /\ arg.fn = "div_history_extract"
    /\ Returns(HistoryOfText(arg.text))

\* find_short_chunks(file, N), as main() calls it for --short N
ShortCall ==
    /\ arg.fn = "find_short_chunks"
    /\ Returns(find_short_chunks(arg.data, arg.max_length))

AllShortCall ==
    /\ arg.fn = "find_all_short_chunks"
    /\ Returns(find_all_short_chunks(arg.data, arg.max_length))

\* get_referenced_chunks_from_chunk(json_file, source_chunk)
ReferencedCall ==
    /\ arg.fn = "get_referenced_chunks_from_chunk"
    /\ Returns(get_referenced_chunks_from_chunk(arg.all_chunks, arg.references))

SpecFun ==
    InitFun /\ [][ReferenceCall \/ HistoryCall \/ ShortCall \/ AllShortCall
                    \/ ReferencedCall]_vars


\* ------------------------------------------- parse() on a parsed document
\* A document is one branch of the tag tree: doc[1] is the outermost tag,
\* doc[d + 1] the child tag of doc[d].  A tag has a name, a class list, and,
\* if text is TRUE, one text node of its own, which precedes its child tag;
\* the character of that text node is the depth d of the tag.
SP == 0 - 2

Tag(name, class, text) == [name |-> name, class |-> class, text |-> text]

\* an annotation drawer, an rbox div, an editor-note div, an rbox div that
\* is an editor note, a paragraph; each with or without text of its own
Tags ==
    {Tag(k[1], k[2], t) :
        k \in {<<"annotationdrawer", {}>>, <<"div", {"rbox"}>>, <<"div", {"EdNote"}>>,
               <<"div", {"rbox", "EdNote"}>>, <<"p", {}>>},
        t \in BOOLEAN}

Docs == UNION {[1..d -> Tags] : d \in 1..MaxDepth}

\* lines 295-307 (no table is among Tags)
has_target_class(tag) ==
    tag.name = "div" /\ \E c \in tag.class : c = "rbox"

\* soup.find_all(has_target_class): the depths of the selected tags, in
\* document order
find_all(d) == SelectSeq([i \in 1..Len(d) |-> i], LAMBDA i : has_target_class(d[i]))

\* lines 50-68: the walk from the parent i of a text node up to, and not
\* including, the element at depth e
RECURSIVE ParentWalk(_, _, _, _)
ParentWalk(d, e, i, is_nested_rbox) ==
    IF i <= e
    THEN [is_inside_annotation |-> FALSE, is_nested_rbox |-> is_nested_rbox,
          is_editor_note |-> FALSE]
    ELSE IF d[i].name = "annotationdrawer"
    THEN [is_inside_annotation |-> TRUE, is_nested_rbox |-> is_nested_rbox,
          is_editor_note |-> FALSE]
    ELSE LET nested == is_nested_rbox \/ "rbox" \in d[i].class
         IN IF "EdNote" \in d[i].class
            THEN [is_inside_annotation |-> FALSE, is_nested_rbox |-> nested,
                  is_editor_note |-> TRUE]
            ELSE ParentWalk(d, e, i - 1, nested)

\* line 71
IncludesText(d, e, i) ==
    LET w == ParentWalk(d, e, i, FALSE)
    IN ~w.is_inside_annotation /\ (~w.is_nested_rbox \/ w.is_editor_note)

\* lines 44-72: text_content over the descendants from depth i on
RECURSIVE TextFrom(_, _, _)
TextFrom(d, e, i) ==
    IF i > Len(d) THEN <<>>
    ELSE (IF d[i].text /\ IncludesText(d, e, i) THEN <<i, SP>> ELSE <<>>)
         \o TextFrom(d, e, i + 1)

\* str.strip() of a text that can only end in blanks
Strip(text) ==
    IF text # <<>> /\ text[Len(text)] = SP THEN SubSeq(text, 1, Len(text) - 1) ELSE text

extract_text_from_element(d, e) == Strip(TextFrom(d, e, e))

\* the selected tag at depth e, as parse() reads it
ElementAt(d, e) ==
    [Elem(d[e].name, {}, FALSE, Len(extract_text_from_element(d, e)), FALSE, FALSE, FALSE,
          FALSE, FALSE, <<>>, 0, 0, FALSE)
       EXCEPT !.rbox = \E c \in d[e].class : c = "rbox"]

InitTree ==
    /\ pc = "loop"
    /\ n = 0
    /\ current_text = <<>>
    /\ current_metadata = InitMetadata
    /\ heap = NewLists(<<>>, 8)
    /\ chunks = <<>>
    /\ chunk_number = 1
    /\ unhandled_text = <<>>
    /\ sec = 0
    /\ emitted = <<>>
    /\ handed = <<>>
    /\ source = <<>>
    /\ last = NoCall
    /\ inputs = <<>>
    /\ doc \in Docs
    /\ arg = <<>>
    /\ ret = <<>>

\* one iteration of the for loop over find_all(doc); every selected tag has
\* the classes of the fallback branch
TreeWalk ==
    /\ pc = "loop" /\ n < Len(find_all(doc))
    /\ LET e == find_all(doc)[n + 1]
           el == ElementAt(doc, e)
       IN /\ is_structural_element(el) = 0
          /\ ~el.normal
          /\ ~(el.name = "table" /\ el.footnote)
          /\ FallbackStep(el, extract_text_from_element(doc, e))
          /\ inputs' = Append(inputs, Visited(el))
    /\ n' = n + 1
    /\ UNCHANGED <<doc, arg, ret>>

\* the loop ends after the last selected tag
TreeFinish ==
    /\ n = Len(find_all(doc))
    /\ Finish

SpecTree == InitTree /\ [][TreeWalk \/ TreeFinish]_vars

\* ------------------------------------------------------------- properties
\* what a reader of chunk c sees: the lists behind its references
ChunkView(c, h) ==
    [content |-> c.content,
     doc_id |-> c.doc_id, chunk_id |-> c.chunk_id, chunk_index |-> c.chunk_index,
     chunk_number |-> c.chunk_number, title |-> c.title,
     character_count |-> c.character_count,
     fields |-> [f \in {"chapter", "article", "article_number", "article_title",
                        "division", "section_id", "section_number", "section_title",
                        "subsection", "hash"} |-> c.metadata[f]],
     internal_links |-> h[c.metadata.all_links.internal_links],
     external_links |-> h[c.metadata.all_links.external_links],
     intercode_links |-> h[c.metadata.all_links.intercode_links],
     image_links |-> h[c.metadata.all_links.image_links],
     history_data |-> c.metadata.history_data,
     references |-> h[c.metadata.references],
     new_ordinance_links |-> h[c.metadata.new_ordinance_links],
     div_classes |-> h[c.metadata.div_classes],
     html_tags |-> h[c.metadata.html_tags]]

\* the members of a sequence
Range(q) == {q[k] : k \in 1..Len(q)}

\* C1: no two chunks emitted by one parse() run have the same chunk_id.
C1_UniqueChunkIds ==
    \A i, j \in 1..Len(chunks) :
        i # j => chunks[i].chunk_id # chunks[j].chunk_id

\* C2: the k-th emitted chunk has chunk_number k, and the global counter is
\* the number of emitted chunks plus 1.
C2_ChunkNumberGapless ==
    /\ \A k \in 1..Len(chunks) : chunks[k].chunk_number = k
    /\ chunk_number = Len(chunks) + 1

\* a run that emitted chunks by a split, at a boundary and at the end
C2_Witness ==
    /\ pc = "done"
    /\ Len(chunks) >= 3
    /\ {emitted[k].cause : k \in 1..Len(emitted)} = {"split", "boundary", "final"}

\* C3: a boundary of level i keeps every field of a level < i, unsets every
\* field of a level > i, and leaves in the fields of level i only values
\* taken from the boundary node itself (or None).
C3_BoundaryFrame ==
    [][(n' = n + 1 /\ last'.level # 0) =>
         LET i == last'.level IN
         /\ \A j \in 1..(i - 1) : \A f \in FieldSet(j) :
                current_metadata'[f] = current_metadata[f]
         /\ \A j \in (i + 1)..5 : \A f \in FieldSet(j) :
                current_metadata'[f] = None
         /\ \A f \in FieldSet(i) :
                \/ current_metadata'[f] = None
                \/ current_metadata'[f] = EmptyStr
                \/ (current_metadata'[f].k = "str" /\ current_metadata'[f].n = n')]_vars

\* a Division boundary was processed under a Chapter and an Article
C3_Witness ==
    /\ last.level = 3
    /\ current_metadata.chapter.n = 1
    /\ current_metadata.article.n = 2
    /\ current_metadata.division.n = 3
    /\ current_metadata.section_title = None

\* C4: once a chunk is emitted, what it holds never changes.
C4_ChunksImmutable ==
    [][\A k \in 1..Len(chunks) :
          ChunkView(chunks'[k], heap') = ChunkView(chunks[k], heap)]_vars

\* whitespace normalisation: the newlines the parser inserts disappear
Normalize(text) == SelectSeq(text, LAMBDA c : c # NL)

RECURSIVE ConcatContent(_)
ConcatContent(chs) ==
    IF chs = <<>> THEN <<>> ELSE Head(chs).content \o ConcatContent(Tail(chs))

\* C5: when parse() has returned, the chunk contents, concatenated in
\* chunk_number order and normalised, are the visible text of the elements.
C5_RoundTrip ==
    pc = "done" => Normalize(ConcatContent(chunks)) = source

\* C6: a call with a non-empty buffer and len(buffer) + len(new) over the
\* maximum emits exactly one chunk, the old buffer, raises chunk_index by
\* one and leaves the new text alone in the buffer.
C6_OverflowSplit ==
    (last.called /\ last.cur # <<>> /\ Len(last.cur) + Len(last.new) > max_chunk_size) =>
        /\ Len(chunks) = last.nchunks + 1
        /\ chunks[Len(chunks)].content = last.cur
        /\ chunks[Len(chunks)].chunk_index = last.idx
        /\ current_metadata.chunk_index = last.idx + 1
        /\ current_text = last.new

C6_Witness ==
    /\ last.called /\ last.cur # <<>>
    /\ Len(last.cur) + Len(last.new) > max_chunk_size
    /\ Len(chunks) = 1

\* C7 as stated: without overflow no chunk is emitted and the buffer has
\* length exactly len(buffer) + len(new).
C7_NoSplitLengthAdds ==
    (last.called /\ Len(last.cur) + Len(last.new) <= max_chunk_size) =>
        /\ Len(chunks) = last.nchunks
        /\ Len(current_text) = Len(last.cur) + Len(last.new)

\* C7 amended: without overflow no chunk is emitted and the buffer is the
\* old buffer, a newline if the old buffer was not empty, and the new text.
C7_NoSplitAppend ==
    (last.called /\ Len(last.cur) + Len(last.new) <= max_chunk_size) =>
        /\ Len(chunks) = last.nchunks
        /\ current_metadata.chunk_index = last.idx
        /\ current_text = IF last.cur # <<>> THEN last.cur \o <<NL>> \o last.new
                          ELSE last.new
        /\ Len(current_text) = Len(last.cur) + Len(last.new)
                               + (IF last.cur # <<>> THEN 1 ELSE 0)

C7_Witness ==
    /\ last.called /\ last.cur # <<>>
    /\ Len(last.cur) + Len(last.new) <= max_chunk_size
    /\ Len(current_text) = Len(last.cur) + Len(last.new) + 1

\* C8: every emitted chunk has character_count <= max_chunk_size.
C8_ChunksSizeBounded ==
    \A k \in 1..Len(chunks) : chunks[k].character_count <= max_chunk_size

\* C9: the chunks of one section carry chunk_index 1, 2, ..., in emission
\* order, and the live index is 1 plus the number of splits of the section.
C9_SectionIndexContiguous ==
    /\ \A k \in 1..Len(chunks) :
          chunks[k].chunk_index =
              IF k = 1 \/ emitted[k - 1].sec # emitted[k].sec THEN 1
              ELSE chunks[k - 1].chunk_index + 1
    /\ pc = "loop" =>
          current_metadata.chunk_index =
              1 + Cardinality({k \in 1..Len(chunks) :
                                 emitted[k].sec = sec /\ emitted[k].cause = "split"})

\* a section of two chunks followed by a chunk of the next section
C9_Witness ==
    /\ Len(chunks) >= 3
    /\ emitted[1].sec = emitted[2].sec /\ chunks[2].chunk_index = 2
    /\ emitted[3].sec # emitted[2].sec /\ chunks[3].chunk_index = 1

\* C10: within one section the history bucket only grows.
C10_HistoryAccumulates ==
    [][sec' = sec =>
         \A key \in {"added_by", "amended_by", "see_also"} :
             Range(current_metadata.history_data[key])
                 \subseteq Range(current_metadata'.history_data[key])]_vars

\* the four link lists and the reference list of a metadata dict
Buckets(md, h) ==
    <<h[md.all_links.internal_links], h[md.all_links.external_links],
      h[md.all_links.intercode_links], h[md.all_links.image_links],
      h[md.references]>>

IsPrefix(a, b) == Len(a) <= Len(b) /\ SubSeq(b, 1, Len(a)) = a

\* C11: right after a structural boundary the four live link lists and the
\* live reference list are empty; any other step, a size-triggered split
\* included, leaves each of them with its earlier value as a prefix.
C11_LinkBucketLifecycle ==
    [][IF sec' # sec
       THEN \A k \in 1..5 : Buckets(current_metadata', heap')[k] = <<>>
       ELSE \A k \in 1..5 : IsPrefix(Buckets(current_metadata, heap)[k],
                                     Buckets(current_metadata', heap')[k])]_vars

\* the last step split the buffer inside a section whose lists already held
\* links of an earlier element, and they are all still there
C11_Witness ==
    /\ last.called /\ Len(chunks) > last.nchunks
    /\ sec >= 1
    /\ Len(Buckets(current_metadata, heap)[1]) >= 2
    /\ Len(Buckets(current_metadata, heap)[2]) >= 1
    /\ Len(Buckets(current_metadata, heap)[5]) >= 1
    /\ Buckets(current_metadata, heap)[1][1].node < n

\* the links and history clauses that element p carries are in chunk c
Carries(c, p) ==
    LET all_links == div_links_extract_all(inputs[p], p)
        history_data == div_history_extract(inputs[p], p)
        v == ChunkView(c, heap)
    IN /\ Range(all_links.internal_links) \subseteq Range(v.internal_links)
       /\ Range(all_links.external_links) \subseteq Range(v.external_links)
       /\ Range(all_links.intercode_links) \subseteq Range(v.intercode_links)
       /\ Range(all_links.image_links) \subseteq Range(v.image_links)
       /\ Range(history_data.added_by) \subseteq Range(v.history_data.added_by)
       /\ Range(history_data.amended_by) \subseteq Range(v.history_data.amended_by)

\* C12: no chunk is emitted that holds text of an element (content,
\* fallback or boundary element) without the links and the history that
\* the element carries.
C12_TextWithItsLinks ==
    \A k \in 1..Len(chunks) : \A p \in 1..Len(inputs) :
        p \in Range(chunks[k].content) => Carries(chunks[k], p)

\* C13: a boundary visited with a non-empty buffer emits exactly one chunk,
\* which carries the buffered text (closed by a newline) and the hierarchy
\* fields, links, references, history and chunk_index the metadata held
\* before the boundary; after the step the metadata is reset and the buffer
\* is the boundary node's own text.  With an empty buffer the boundary emits
\* no chunk.
C13_BoundaryOrdering ==
    [][sec' # sec =>
         /\ IF current_text # <<>>
            THEN /\ Len(chunks') = Len(chunks) + 1
                 /\ SubSeq(chunks', 1, Len(chunks)) = chunks
                 /\ LET v == ChunkView(chunks'[Len(chunks')], heap') IN
                      /\ v.content \in {current_text, Append(current_text, NL)}
                      /\ \A f \in DOMAIN v.fields : v.fields[f] = current_metadata[f]
                      /\ <<v.internal_links, v.external_links, v.intercode_links,
                            v.image_links, v.references>> = Buckets(current_metadata, heap)
                      /\ v.history_data = current_metadata.history_data
                      /\ v.chunk_index = current_metadata.chunk_index
            ELSE chunks' = chunks
         /\ current_metadata'.chunk_index = 1
         /\ \A k \in 1..5 : Buckets(current_metadata', heap')[k] = <<>>
         /\ \E l \in 0..MaxTextLen : current_text' = TextOf(n', l)]_vars

\* a boundary with a heading flushed a buffer whose metadata held links, a
\* history clause and a section-local index above 1
C13_Witness ==
    /\ last.level # 0 /\ current_text # <<>>
    /\ Len(chunks) >= 2
    /\ emitted[Len(chunks)].cause = "boundary"
    /\ ChunkView(chunks[Len(chunks)], heap).chunk_index = 2
    /\ ChunkView(chunks[Len(chunks)], heap).internal_links # <<>>

\* C14: parse() terminates, and when it has returned a non-empty buffer is
\* exactly the content of the last emitted chunk, which the final save
\* emitted; with an empty buffer the final save emitted nothing.
C14_FinalFlush ==
    /\ <>(pc = "done")
    /\ [](pc = "done" =>
            IF current_text # <<>>
            THEN /\ Len(chunks) >= 1
                 /\ chunks[Len(chunks)].content = current_text
                 /\ emitted[Len(chunks)].cause = "final"
            ELSE \A k \in 1..Len(chunks) : emitted[k].cause # "final")

\* parse() returned after MaxElems elements with text left in the buffer and
\* chunks emitted before the final one
C14_Witness ==
    /\ pc = "done" /\ n = MaxElems
    /\ current_text # <<>>
    /\ Len(chunks) >= 2

\* the texts of a list, one after the other
RECURSIVE Flatten(_)
Flatten(texts) ==
    IF texts = <<>> THEN <<>> ELSE Head(texts) \o Flatten(Tail(texts))

\* C15: at every moment the chunk contents in emission order, followed by
\* the buffer not yet emitted, are the texts handed to the accumulator in
\* visit order, each once, with nothing between them but the newlines the
\* accumulator inserts.
C15_AppendsInOrder ==
    Normalize(ConcatContent(chunks) \o (IF pc = "done" THEN <<>> ELSE current_text))
        = Normalize(Flatten(handed))

\* parse() returned after MaxElems texts were handed over; two of them share
\* a chunk and another chunk was emitted before it
C15_Witness ==
    /\ pc = "done"
    /\ Len(handed) = MaxElems
    /\ Len(chunks) >= 2
    /\ \E k \in 2..Len(chunks) : \E i \in 2..(Len(chunks[k].content) - 1) :
          /\ chunks[k].content[i] = NL
          /\ chunks[k].content[i - 1] >= 1
          /\ chunks[k].content[i + 1] > chunks[k].content[i - 1]

\* C16: a call of _save_chunk raises exactly when its metadata has no
\* chunk_index, and a call that raises appends no chunk and leaves the global
\* chunk counter as it was.
C16_MissingIndexRaises ==
    [][n' = n + 1 =>
         /\ (pc' = "raised") <=> ("chunk_index" \notin DOMAIN current_metadata')
         /\ pc' = "raised" => (chunks' = chunks /\ chunk_number' = chunk_number)
         /\ pc' # "raised" => (Len(chunks') = Len(chunks) + 1
                                 /\ chunk_number' = chunk_number + 1)]_vars

\* a call without chunk_index raised after earlier calls had emitted chunks
C16_Witness ==
    /\ pc = "raised"
    /\ "chunk_index" \notin DOMAIN current_metadata
    /\ Len(chunks) >= 1
    /\ chunk_number = Len(chunks) + 1

\* the text node of the tag at depth i is inside an annotation drawer
InDrawer(d, i) == \E j \in 1..i : d[j].name = "annotationdrawer"

\* C17: no chunk content holds text that the document has inside an
\* annotation drawer, at any depth.
C17_AnnotationExcluded ==
    \A k \in 1..Len(chunks) : \A i \in 1..Len(doc) :
        (doc[i].text /\ InDrawer(doc, i)) => i \notin Range(chunks[k].content)

\* C18: the text extracted for a selected element E includes a text node
\* below E exactly when the node is not inside an annotation drawer below E
\* and is either not inside an rbox nested below E or inside an editor-note
\* container below E.
C18_NestedSectionText ==
    \A k \in 1..Len(find_all(doc)) :
        LET e == find_all(doc)[k] IN
        \A i \in e..Len(doc) :
            doc[i].text =>
                (i \in Range(extract_text_from_element(doc, e))
                 <=> /\ ~(\E j \in (e + 1)..i : doc[j].name = "annotationdrawer")
                     /\ \/ ~(\E j \in (e + 1)..i : "rbox" \in doc[j].class)
                        \/ \E j \in (e + 1)..i : "EdNote" \in doc[j].class)

\* C19: when parse() has returned, the text of every tag outside annotation
\* drawers is in some chunk, and every text handed to the accumulator by the
\* fallback branch has exactly one audit record.
C19_UnrecognizedCaptured ==
    pc = "done" =>
        /\ \A i \in 1..Len(doc) :
              (doc[i].text /\ ~InDrawer(doc, i)) =>
                  \E k \in 1..Len(chunks) : i \in Range(chunks[k].content)
        /\ \A a, b \in 1..Len(unhandled_text) :
              a # b => unhandled_text[a].node # unhandled_text[b].node
        /\ Len(unhandled_text) = Len(handed)

\* C20: when a content element is processed, every internal link descriptor
\* it carries, one without a hash component included, is appended to
\* internal_links; the reference list gains one entry for each descriptor
\* that has a hash and none for one that has not; the element's external,
\* intercode and image links are appended as well; no error is raised.
C20_UnresolvableLink ==
    [][(n' = n + 1 /\ Len(inputs') = n' /\ inputs'[n'].branch = "content"
        /\ last'.called) =>
         LET all_links == div_links_extract_all(inputs'[n'], n')
             resolvable == SelectSeq(all_links.internal_links, LAMBDA l : l.kind # "nohash")
             before == Buckets(current_metadata, heap)
             after == Buckets(current_metadata', heap')
         IN /\ after[1] = before[1] \o all_links.internal_links
            /\ after[2] = before[2] \o all_links.external_links
            /\ after[3] = before[3] \o all_links.intercode_links
            /\ after[4] = before[4] \o all_links.image_links
            /\ Len(after[5]) = Len(before[5]) + Len(resolvable)
            /\ SubSeq(after[5], 1, Len(before[5])) = before[5]
            /\ \A k \in 1..Len(resolvable) :
                  after[5][Len(before[5]) + k].hash = resolvable[k]
            /\ pc' = "loop"]_vars

\* the last element carried a descriptor without hash in front of one with a
\* hash: both are in internal_links, only the second has a reference, and
\* the element's external link is there too
C20_Witness ==
    /\ n >= 2 /\ Len(inputs) = n
    /\ inputs[n].ilinks = <<"nohash", "hash">>
    /\ LET b == Buckets(current_metadata, heap) IN
         /\ Len(b[1]) >= 3
         /\ b[1][Len(b[1]) - 1] = [node |-> n, kind |-> "nohash"]
         /\ b[5][Len(b[5])].hash = [node |-> n, kind |-> "hash"]
         /\ Len(b[5]) = Len(b[1]) - 1
         /\ b[2][Len(b[2])].node = n

\* C21: for a link with a pathname whose hash is '#JD_' + R, the reference
\* string is 'Article ' and all of R behind 'Article' when R starts with
\* 'Article', 'Section ' + R when R starts with a digit or with A and a
\* digit, and R otherwise; the record_id is the last segment of the pathname.
C21_ReferenceFormat ==
    (pc = "returned" /\ arg.fn = "_process_internal_links"
     /\ arg.link.hash # NoValue /\ Head(arg.link.hash) = "JD_"
     /\ arg.link.pathname # NoValue) =>
        LET R == Tail(arg.link.hash) IN
        /\ Len(ret) = 1
        /\ ret[1].reference_string =
              IF Head(R) = "Article" THEN <<"Article", " ">> \o Tail(R)
              ELSE IF Head(R) = "5" \/ (Len(R) >= 2 /\ R[1] = "A" /\ R[2] = "5")
              THEN <<"Section", " ">> \o R
              ELSE R
        /\ ret[1].record_id = <<arg.link.pathname[Len(arg.link.pathname)]>>

\* the keyword ("Added by" or "Amended by") that governs position j of a
\* history text: the nearest one before j, "" if there is none
Governs(text, j) ==
    LET ks == {i \in 1..(j - 1) : text[i] \in {"Added by", "Amended by"}}
    IN IF ks = {} THEN "" ELSE text[CHOOSE i \in ks : \A k \in ks : k <= i]

\* C22: 'Added by Ord. X; Amended by Ord. Y' gives added_by = [X] and
\* amended_by = [Y]; a number that follows "Amended by" is never in added_by
\* and a number that follows "Added by" never in amended_by; and the numbers
\* of every "Added by" / "Amended by" clause (the keyword, a blank, and the
\* text up to the next ";") are in the list of its keyword.
C22_HistoryExtraction ==
    (pc = "returned" /\ arg.fn = "div_history_extract") =>
        LET text == arg.text IN
        /\ text = <<"Added by", "Ord", ";", "Amended by", "Ord">> =>
              (ret.added_by = <<2>> /\ ret.amended_by = <<5>>)
        /\ \A j \in Range(ret.added_by) : Governs(text, j) = "Added by"
        /\ \A j \in Range(ret.amended_by) : Governs(text, j) = "Amended by"
        /\ \A i \in 1..(Len(text) - 1) : \A j \in ClauseOf(text, i) :
              (text[i + 1] \notin {";", ","} /\ text[j] = "Ord") =>
                  /\ (text[i] = "Added by" /\ Governs(text, j) = "Added by")
                        => j \in Range(ret.added_by)
                  /\ (text[i] = "Amended by" /\ Governs(text, j) = "Amended by")
                        => j \in Range(ret.amended_by)

C24_UnreadableInput ==
    (~arg.readable /\ pc # "open") =>
        /\ pc = "raised"
        /\ n = 0 /\ inputs = <<>>
        /\ chunks = <<>>
        /\ chunk_number = 1
        /\ current_text = <<>> /\ unhandled_text = <<>>

\* open() has failed on a file with elements in it
C24_Witness == ~arg.readable /\ pc = "raised" /\ Len(arg.elements) >= 2

\* C25: find_short_chunks and find_all_short_chunks return, in file order,
\* exactly the chunks whose character_count is less than max_length, and
\* the predecessor_length of a returned chunk is the character_count of the
\* chunk before it in the file, None for the first chunk of the file.
C25_ShortChunks ==
    (pc = "returned" /\ arg.fn \in {"find_short_chunks", "find_all_short_chunks"}) =>
        LET data == arg.data
            shorter == SelectSeq([i \in 1..Len(data) |-> i],
                                 LAMBDA i : data[i].character_count < arg.max_length)
        IN /\ Len(ret) = Len(shorter)
           /\ \A k \in 1..Len(ret) :
                 /\ k <= Len(shorter)
                 /\ ret[k].chunk_number = data[shorter[k]].chunk_number
                 /\ ret[k].character_count = data[shorter[k]].character_count
                 /\ arg.fn = "find_short_chunks" =>
                       ret[k].predecessor_length =
                           IF shorter[k] = 1 THEN <<>>
                           ELSE Some(data[shorter[k] - 1].character_count)

\* the visit at which section secno began: the secno-th structural element,
\* 0 for the text before the first one
BoundaryVisit(secno) ==
    IF secno = 0 THEN 0
    ELSE LET structural == SelectSeq([i \in 1..Len(inputs) |-> i],
                                     LAMBDA i : inputs[i].branch = "structural")
         IN structural[secno]

\* C26: the section_id of an emitted chunk is unset, or it is the id of a
\* content element visited after the structural boundary that began the
\* chunk's section; no chunk carries the id of a content element of an
\* earlier section.
C26_SectionIdOfOwnSection ==
    \A k \in 1..Len(chunks) :
        LET section_id == chunks[k].metadata.section_id IN
        Truthy(section_id) =>
            /\ section_id.n > BoundaryVisit(emitted[k].sec)
            /\ inputs[section_id.n].branch = "content"

\* the call of add_text_to_current_chunk of this step has emitted a chunk
JustSplit ==
    /\ last.called /\ Len(chunks) = last.nchunks + 1
    /\ emitted[Len(chunks)].cause = "split"

\* C27: when a size-triggered split emits a chunk, the chunk's link lists
\* and its reference list hold no entry of the element whose text starts
\* the next chunk (the element of the current visit).
C27_SplitChunkLinks ==
    JustSplit =>
        LET v == ChunkView(chunks[Len(chunks)], heap) IN
        /\ \A l \in Range(v.internal_links) \cup Range(v.external_links)
                     \cup Range(v.intercode_links) \cup Range(v.image_links) : l.node # n
        /\ \A r \in Range(v.references) : r.hash.node # n
        /\ n \notin Range(chunks[Len(chunks)].content)

\* the elements whose text is in a content, in the order of the content
RECURSIVE NodesOf(_)
NodesOf(text) ==
    IF text = <<>> THEN <<>>
    ELSE LET rest == NodesOf(Tail(text)) IN
         IF Head(text) < 1 \/ (rest # <<>> /\ Head(rest) = Head(text)) THEN rest
         ELSE <<Head(text)>> \o rest

RECURSIVE SumLengths(_)
SumLengths(tags) ==
    IF tags = <<>> THEN 0 ELSE Head(tags).text_length + SumLengths(Tail(tags))

\* C28: the html_tags list of every emitted chunk has exactly one entry, in
\* order, for each element whose text is in the chunk's content and none for
\* any other element, and the text_length of its entries plus one separator
\* between consecutive entries add up to the chunk's character_count.
C28_TagProvenance ==
    \A k \in 1..Len(chunks) :
        LET html_tags == heap[chunks[k].metadata.html_tags] IN
        /\ [j \in 1..Len(html_tags) |-> html_tags[j].node] = NodesOf(chunks[k].content)
        /\ SumLengths(html_tags) + (Len(html_tags) - 1) = chunks[k].character_count

\* the links a reference list stands for
HashesOf(references) == [j \in 1..Len(references) |-> references[j].hash]

\* C29: at every point of the traversal and in every emitted chunk, the
\* reference list has exactly one entry, in the same order, for each entry
\* of all_links.internal_links that has a hash fragment.
C29_ReferencesMatchLinks ==
    /\ HashesOf(heap[current_metadata.references])
           = SelectSeq(heap[current_metadata.all_links.internal_links], LinkHasHash)
    /\ \A k \in 1..Len(chunks) :
           HashesOf(heap[chunks[k].metadata.references])
               = SelectSeq(heap[chunks[k].metadata.all_links.internal_links], LinkHasHash)

\* C30: every text node of the document contributes its text to the
\* content of at most one emitted chunk, whatever the nesting of rbox divs
\* and editor-note containers.
C30_NoDoubleCounting ==
    \A i \in 1..Len(doc) :
        doc[i].text =>
            \A k \in 1..Len(chunks) : \A m \in 1..Len(chunks) :
                (i \in Range(chunks[k].content) /\ i \in Range(chunks[m].content)) => k = m

\* C31: an element whose classes match a hierarchy level is handled as a
\* structural boundary, also when it carries the Normal-Level marker, and
\* when its classes match several levels the boundary is taken at the
\* highest of them in the order Chapter, Article, Division, Section,
\* Subsection.
C31_StructuralFirst ==
    (pc = "loop" /\ n = 1 /\ arg.levels # {}) =>
        /\ inputs[1].branch = "structural"
        /\ sec = 1
        /\ last.level \in arg.levels
        /\ \A j \in arg.levels : last.level <= j
        /\ Truthy(current_metadata[LevelFields(last.level)[1]])
        /\ \A j \in arg.levels \ {last.level} :
              current_metadata[LevelFields(j)[1]] = None

\* a Normal-Level element with the Article and the Section keyword has been
\* handled as an Article boundary
C31_Witness ==
    /\ pc = "loop" /\ n = 1
    /\ arg.normal = "whole" /\ arg.levels = {2, 4}
    /\ last.level = 2
    /\ Truthy(current_metadata.article)
    /\ current_metadata.section_title = None

\* the branch of parse() that corresponds to a result of classify_element
BranchNamed(kind) ==
    CASE kind = "structural" -> "structural"
      [] kind = "content" -> "content"
      [] kind = "footnote" -> "footnote"
      [] kind = "other_rbox" -> "other"
      [] OTHER -> "none"

\* C32: for every element the walk selects, classify_element returns
\* 'structural', 'content', 'footnote' or 'other_rbox' exactly when parse()
\* takes the structural, the Normal-Level, the footnote or the fallback
\* branch for it.
C32_ClassifierAgrees ==
    pc = "returned" => BranchNamed(ret[1]) = inputs[1].branch

\* C33: no emitted chunk has empty content: every chunk has
\* character_count >= 1, and its character_count is the length of its
\* content.
C33_NoEmptyChunk ==
    \A k \in 1..Len(chunks) :
        /\ chunks[k].content # <<>>
        /\ chunks[k].character_count >= 1
        /\ chunks[k].character_count = Len(chunks[k].content)

\* parse() has returned after a boundary with text, a boundary without
\* text and a content element without text: one chunk, and an empty buffer
\* at the end
C33_Witness ==
    /\ pc = "done" /\ n = 3
    /\ inputs[1].branch = "structural" /\ inputs[2].branch = "structural"
    /\ inputs[3].branch = "content"
    /\ current_text = <<>>
    /\ Len(chunks) = 1 /\ emitted[1].cause = "boundary"

\* C34: in every state of parse() the live metadata has a chunk_index, an
\* integer >= 1, and the missing-index error of _save_chunk is not raised.
C34_IndexDefined ==
    /\ "chunk_index" \in DOMAIN current_metadata
    /\ current_metadata.chunk_index \in Int
    /\ current_metadata.chunk_index >= 1
    /\ pc # "raised"

\* parse() has returned after a boundary, a split that raised the index to
\* 2 and the final save
C34_Witness ==
    /\ pc = "done" /\ sec >= 1
    /\ current_metadata.chunk_index = 2
    /\ Len(chunks) >= 2
    /\ emitted[Len(chunks)].cause = "final" /\ emitted[Len(chunks) - 1].cause = "split"

\* C35: the live hash is '#' + the anchor name of the most recent
\* structural boundary, or None when that boundary has no anchor (or no
\* boundary has been met); it is never the hash of an earlier boundary, and
\* content, footnote and fallback elements leave it as the boundary set it.
C35_HashNotStale ==
    LET b == BoundaryVisit(sec) IN
    IF sec > 0 /\ \E i \in Levels : current_metadata[AnchorField(i)] = Str(b, "anchor", FALSE)
    THEN current_metadata.hash = Str(b, "hash", FALSE)
    ELSE current_metadata.hash = None

\* a boundary with an anchor, then a boundary without one, then another
\* element: the hash is None while the anchor of the first boundary is
\* still recorded
C35_Witness ==
    /\ n = 3 /\ sec = 2 /\ inputs[3].branch # "structural"
    /\ current_metadata.hash = None
    /\ \E i \in Levels : current_metadata[AnchorField(i)] = Str(1, "anchor", FALSE)
    /\ current_text # <<>>

\* C36: get_referenced_chunks_from_chunk returns, in reference order, one
\* chunk for each reference whose hash some chunk of the file carries, each
\* with that hash; when several chunks carry the hash, the first of them in
\* file order is returned; references without a matching chunk are skipped.
C36_ReferencedChunks ==
    (pc = "returned" /\ arg.fn = "get_referenced_chunks_from_chunk") =>
        LET all_chunks == arg.all_chunks
            Carriers(h) == {k \in 1..Len(all_chunks) : h # "" /\ all_chunks[k].hash = h}
            matched == SelectSeq(arg.references, LAMBDA h : Carriers(h) # {})
        IN /\ Len(ret) = Len(matched)
           /\ \A k \in 1..Len(matched) :
                 /\ ret[k].hash = matched[k]
                 /\ \A j \in Carriers(matched[k]) : ret[k].chunk_number <= j

====
